---- MODULE Spec2Model ----
(***************************************************************************)
(* Model of the pricesplease extraction-normalization-ingestion pipeline:  *)
(*   - TitleNormalizer.normalize        (src/src/services/normalization.py) *)
(*   - process_scraped_game, one HTTP request per call, each statement and *)
(*     each commit a separate step against the shared database            *)
(*                                              (src/src/services/crud.py) *)
(*   - the tables and their unique indexes       (src/src/db/models.py)    *)
(*   - scrape_steam / scrape_epic / main on one asyncio event loop         *)
(*                                           (src/src/services/scraper.py) *)
(* A title is a sequence of one-character strings.                         *)
(***************************************************************************)
EXTENDS Integers, Sequences, FiniteSets, TLC

VARIABLES
    stores,     \* table "stores":        set of [id, name]
    games,      \* table "games":         set of [id, title, slug]
    listings,   \* table "game_listings": set of [id, game_id, store_id, remote_id, listing_title]
    prices,     \* table "price_history": set of [id, listing_id, price, currency, discount_percent, scraped_at]
    clock,      \* the database server's clock (now())
    call,       \* call[c]: one request to POST /api/v1/games/parse and its handler's locals
    task,       \* task[t]: one per-store scrape coroutine
    mainpc,     \* position of scraper.main / asyncio.run
    busy,       \* the coroutine that holds the event loop inside a blocking requests.post
    posted,     \* posted[t]: the payloads task t has handed to the ingestion boundary
    botpc,      \* position of the bot's search_handler around the scraper process
    shown,      \* what game_selection_handler last reported: the price row per listing
    arg,        \* the argument a pure function is applied to
    res         \* the values it returned, in call order

vars == <<stores, games, listings, prices, clock, call, task, mainpc, busy, posted,
          botpc, shown, arg, res>>
dbvars == <<stores, games, listings, prices, clock>>
scrapevars == <<task, mainpc, busy, posted>>
botvars == <<botpc, shown>>
fnvars == <<arg, res>>

----------------------------------------------------------------------------
(* Bounds *)

\* concurrent requests to the ingestion boundary
MaxCalls == 2
\* requests issued one after the other by a sequential caller
SeqCalls == 3
\* length of the titles the normalizer is applied to exhaustively
MaxTitleLen == 3
\* largest amount convert_to_usd is applied to, in steps of half a cent
MaxAmount == 25
\* lines of the texts extract_price is applied to
MaxLines == 2

----------------------------------------------------------------------------
(* Characters *)

UpperChars == <<"A", "B", "C", "D", "E", "F", "G", "H", "I", "J", "K", "L", "M",
                "N", "O", "P", "Q", "R", "S", "T", "U", "V", "W", "X", "Y", "Z">>
LowerChars == <<"a", "b", "c", "d", "e", "f", "g", "h", "i", "j", "k", "l", "m",
                "n", "o", "p", "q", "r", "s", "t", "u", "v", "w", "x", "y", "z">>
Letters == {LowerChars[i] : i \in 1..Len(LowerChars)}
Digits == {"0", "1", "2", "3", "4", "5", "6", "7", "8", "9"}
\* the characters \s matches
Whitespace == {" ", "\t"}
\* U+2122, U+00AE, U+00A9, each one character, written by name
Glyphs == {"(tm)", "(r)", "(c)"}

\* str.lower() on one character
LowerChar(ch) ==
    IF \E i \in 1..Len(UpperChars) : UpperChars[i] = ch
        THEN LowerChars[CHOOSE i \in 1..Len(UpperChars) : UpperChars[i] = ch]
        ELSE ch

\* \w after lower(): letters, digits and the underscore
IsWordChar(ch) == ch \in Letters \cup Digits \cup {"_"}

Lower(s) == [i \in 1..Len(s) |-> LowerChar(s[i])]

RECURSIVE RemoveGlyphs(_)
RemoveGlyphs(s) ==
    IF s = <<>> THEN <<>>
    ELSE IF Head(s) \in Glyphs THEN RemoveGlyphs(Tail(s))
    ELSE <<Head(s)>> \o RemoveGlyphs(Tail(s))

STOP_WORDS == <<
    <<"e","d","i","t","i","o","n">>,
    <<"p","r","e","m","i","u","m">>,
    <<"d","e","l","u","x","e">>,
    <<"s","t","a","n","d","a","r","d">>,
    <<"u","l","t","i","m","a","t","e">>,
    <<"g","o","t","y">>,
    <<"g","a","m","e"," ","o","f"," ","t","h","e"," ","y","e","a","r">>,
    <<"d","i","r","e","c","t","o","r","'","s"," ","c","u","t">>,
    <<"p","s","4">>,
    <<"p","s","5">>,
    <<"x","b","o","x"," ","o","n","e">>,
    <<"x","b","o","x"," ","s","e","r","i","e","s"," ","x">>,
    <<"p","c">>,
    <<"f","r","i","e","n","d","'","s"," ","p","a","s","s">> >>

\* mutant: the pattern without the \b on either side
MatchesAt_NoBoundary(s, w, i) ==
    /\ i + Len(w) - 1 <= Len(s)
    /\ \A k \in 1..Len(w) : s[i + k - 1] = w[k]
\* \bword\b matches s at position i
MatchesAt(s, w, i) ==
    /\ i + Len(w) - 1 <= Len(s)
    /\ \A k \in 1..Len(w) : s[i + k - 1] = w[k]
    /\ (i = 1 \/ ~IsWordChar(s[i - 1]))
    /\ (i + Len(w) - 1 = Len(s) \/ ~IsWordChar(s[i + Len(w)]))

\* re.sub(rf'\b{word}\b', '', title): leftmost non-overlapping matches, from i on
RECURSIVE RemoveWordFrom(_, _, _)
RemoveWordFrom(s, w, i) ==
    IF i > Len(s) THEN <<>>
    ELSE IF MatchesAt(s, w, i) THEN RemoveWordFrom(s, w, i + Len(w))
    ELSE <<s[i]>> \o RemoveWordFrom(s, w, i + 1)

\* the loop over STOP_WORDS, from the k-th word on
RECURSIVE RemoveStopWords(_, _)
RemoveStopWords(s, k) ==
    IF k > Len(STOP_WORDS) THEN s
    ELSE RemoveStopWords(RemoveWordFrom(s, STOP_WORDS[k], 1), k + 1)

\* re.sub(r'[^a-z0-9\s]', ' ', title)
PunctToSpace(s) ==
    [i \in 1..Len(s) |->
        IF s[i] \in Letters \cup Digits \cup Whitespace THEN s[i] ELSE " "]

\* re.sub(r'\s+', ' ', title)
RECURSIVE CollapseSpaces(_)
CollapseSpaces(s) ==
    IF s = <<>> THEN <<>>
    ELSE IF Head(s) \in Whitespace
        THEN IF Len(s) > 1 /\ s[2] \in Whitespace
                THEN CollapseSpaces(Tail(s))
                ELSE <<" ">> \o CollapseSpaces(Tail(s))
    ELSE <<Head(s)>> \o CollapseSpaces(Tail(s))

\* str.strip()
RECURSIVE Strip(_)
Strip(s) ==
    IF s = <<>> THEN <<>>
    ELSE IF Head(s) \in Whitespace THEN Strip(Tail(s))
    ELSE IF s[Len(s)] \in Whitespace THEN Strip(SubSeq(s, 1, Len(s) - 1))
    ELSE s

\* TitleNormalizer.normalize
Normalize(raw_title) ==
    Strip(CollapseSpaces(PunctToSpace(RemoveStopWords(RemoveGlyphs(Lower(raw_title)), 1))))

\* clean_title.replace(" ", "-")
SlugOf(clean_title) ==
    [i \in 1..Len(clean_title) |-> IF clean_title[i] = " " THEN "-" ELSE clean_title[i]]

\* the characters of the exhaustively enumerated titles
TitleChars == {"p", "c", "P", "x", "_", " ", "-", "(tm)"}
\* titles of stores: "Xbox-One", "game-of-the-year", "pcgamer deluxe",
\* "Editions: PS4x", "apc(tm)b"
SampleTitles == {
    <<"X", "b", "o", "x", "-", "O", "n", "e">>,
    <<"g", "a", "m", "e", "-", "o", "f", "-", "t", "h", "e", "-", "y", "e", "a", "r">>,
    <<"p", "c", "g", "a", "m", "e", "r", " ", "d", "e", "l", "u", "x", "e">>,
    <<"E", "d", "i", "t", "i", "o", "n", "s", ":", " ", "P", "S", "4", "x">>,
    <<"a", "p", "c", "(tm)", "b">> }
\* the titles normalize is applied to
Titles == UNION {[1..n -> TitleChars] : n \in 0..MaxTitleLen} \cup SampleTitles

\* clean = TitleNormalizer.normalize(raw_title)
NormalizeOnce ==
    /\ res = <<>>
    /\ res' = <<Normalize(arg)>>
    /\ UNCHANGED <<dbvars, call, scrapevars, botvars, arg>>

\* TitleNormalizer.normalize(clean): the function applied to its own output
NormalizeAgain ==
    /\ Len(res) = 1
    /\ res' = Append(res, Normalize(res[1]))
    /\ UNCHANGED <<dbvars, call, scrapevars, botvars, arg>>

----------------------------------------------------------------------------
(* scraper.py: convert_to_usd. An amount is a whole number of thousandths  *)
(* (0.005 is 5), a rate a whole number of thousandths (1.08 is 1080), the    *)
(* result a whole number of cents. A currency code is a sequence of         *)
(* characters.                                                               *)

\* str.upper() on one character
UpperChar(ch) ==
    IF \E i \in 1..Len(LowerChars) : LowerChars[i] = ch
        THEN UpperChars[CHOOSE i \in 1..Len(LowerChars) : LowerChars[i] = ch]
        ELSE ch

Upper(s) == [i \in 1..Len(s) |-> UpperChar(s[i])]

\* CONVERSION_RATES = {"RON": 0.21, "EUR": 1.08, "GBP": 1.26, "UAH": 0.026, "USD": 1.0}
CONVERSION_RATES ==
    (<<"R", "O", "N">> :> 210) @@ (<<"E", "U", "R">> :> 1080) @@
    (<<"G", "B", "P">> :> 1260) @@ (<<"U", "A", "H">> :> 26) @@
    (<<"U", "S", "D">> :> 1000)

\* mutant: a code that is not in the table converts to nothing
RateOf_UnknownIsZero(currency) ==
    IF Upper(currency) \in DOMAIN CONVERSION_RATES
        THEN CONVERSION_RATES[Upper(currency)]
        ELSE 0
\* rate = CONVERSION_RATES.get(currency.upper(), 1.0)
RateOf(currency) ==
    IF Upper(currency) \in DOMAIN CONVERSION_RATES
        THEN CONVERSION_RATES[Upper(currency)]
        ELSE 1000

\* round(x, 2) for x in millionths: the nearest cent. Where x lies halfway
\* between two cents in decimal, the float that stands for it lies on one
\* side or the other, and round returns that side's cent.
Round2(x) ==
    IF x % 10000 = 5000
        THEN {x \div 10000, x \div 10000 + 1}
        ELSE {(x + 5000) \div 10000}

\* convert_to_usd(price, currency): the values round(price * rate, 2) can take
ConvertToUsd(price, currency) == Round2(price * RateOf(currency))

\* the currency codes convert_to_usd is applied to: those of the table, a
\* lowercase one, and two that are not in the table
Currencies == DOMAIN CONVERSION_RATES \cup {<<"e", "u", "r">>, <<"J", "P", "Y">>, <<>>}
\* the amounts: 0.000, 0.005, 0.010, ...
Amounts == {5 * k : k \in 0..MaxAmount}

\* usd = convert_to_usd(price, currency)
ApplyConvert ==
    /\ res = <<>>
    /\ \E usd \in ConvertToUsd(arg.price, arg.currency) : res' = <<usd>>
    /\ UNCHANGED <<dbvars, call, scrapevars, botvars, arg>>

----------------------------------------------------------------------------
(* scraper.py: extract_price. A text is a sequence of characters, "\n"      *)
(* among them; the characters that are not ASCII are written by name. The   *)
(* float returned is [m, e], standing for m / 10^e with no trailing zero.    *)

DigitChars == <<"0", "1", "2", "3", "4", "5", "6", "7", "8", "9">>
DigitValue(ch) == (CHOOSE i \in 1..10 : DigitChars[i] = ch) - 1

\* text.split('\n'): the lines of s, the one being read in acc
RECURSIVE SplitLines(_, _)
SplitLines(s, acc) ==
    IF s = <<>> THEN <<acc>>
    ELSE IF Head(s) = "\n" THEN <<acc>> \o SplitLines(Tail(s), <<>>)
    ELSE SplitLines(Tail(s), Append(acc, Head(s)))

\* [line.strip() for line in text.split('\n') if line.strip()]
RECURSIVE StrippedOf(_)
StrippedOf(ls) ==
    IF ls = <<>> THEN <<>>
    ELSE IF Strip(Head(ls)) = <<>> THEN StrippedOf(Tail(ls))
    ELSE <<Strip(Head(ls))>> \o StrippedOf(Tail(ls))
StrippedLines(text) == StrippedOf(SplitLines(text, <<>>))

\* the last position of the run of digits that starts at i (i - 1 when s[i] is no digit)
RECURSIVE RunEnd(_, _)
RunEnd(s, i) ==
    IF i <= Len(s) /\ s[i] \in Digits THEN RunEnd(s, i + 1) ELSE i - 1

\* \d+[.,]\d+ matches at i: the last position of the match, or 0
DecimalEnd(s, i) ==
    LET j == RunEnd(s, i) IN
        IF /\ j >= i
           /\ j + 2 <= Len(s)
           /\ s[j + 1] \in {".", ","}
           /\ s[j + 2] \in Digits
            THEN RunEnd(s, j + 2)
            ELSE 0

\* re.findall(r"\d+[.,]\d+", line), from position i on
RECURSIVE FindDecimals(_, _)
FindDecimals(s, i) ==
    IF i > Len(s) THEN <<>>
    ELSE IF DecimalEnd(s, i) > 0
        THEN <<SubSeq(s, i, DecimalEnd(s, i))>> \o FindDecimals(s, DecimalEnd(s, i) + 1)
    ELSE FindDecimals(s, i + 1)

\* re.findall(r"\d+", line), from position i on
RECURSIVE FindIntegers(_, _)
FindIntegers(s, i) ==
    IF i > Len(s) THEN <<>>
    ELSE IF RunEnd(s, i) >= i
        THEN <<SubSeq(s, i, RunEnd(s, i))>> \o FindIntegers(s, RunEnd(s, i) + 1)
    ELSE FindIntegers(s, i + 1)

\* lei|ron|\$|(euro sign)|(pound sign)|usd|(hryvnia sign)|uah|(g)(r)(n) in Cyrillic
MARKERS == <<
    <<"l", "e", "i">>, <<"r", "o", "n">>, <<"$">>, <<"(euro)">>, <<"(pound)">>,
    <<"u", "s", "d">>, <<"(hryvnia)">>, <<"u", "a", "h">>,
    <<"(cyr-g)", "(cyr-r)", "(cyr-n)">> >>

\* re.search(r"(?:lei|ron|...)", line, re.IGNORECASE)
HasMarker(line) ==
    \E k \in 1..Len(MARKERS) : \E i \in 1..Len(line) :
        /\ i + Len(MARKERS[k]) - 1 <= Len(line)
        /\ \A n \in 1..Len(MARKERS[k]) : LowerChar(line[i + n - 1]) = MARKERS[k][n]

\* the digits of a match, its separator left out, and the digits after the separator
DigitsOf(match) == SelectSeq(match, LAMBDA ch : ch \in Digits)
FractionLen(match) ==
    IF \E i \in 1..Len(match) : match[i] \notin Digits
        THEN Len(match) - (CHOOSE i \in 1..Len(match) : match[i] \notin Digits)
        ELSE 0

RECURSIVE NatOf(_)
NatOf(ds) ==
    IF ds = <<>> THEN 0
    ELSE NatOf(SubSeq(ds, 1, Len(ds) - 1)) * 10 + DigitValue(ds[Len(ds)])

RECURSIVE FloatOf(_, _)
FloatOf(m, e) ==
    IF e > 0 /\ m % 10 = 0 THEN FloatOf(m \div 10, e - 1) ELSE [m |-> m, e |-> e]

\* float(match.replace(",", "."))
ToFloat(match) == FloatOf(NatOf(DigitsOf(match)), FractionLen(match))

\* mutant: the lines are scanned from the first to the last
ScanOrder_Forward(lines) == lines
\* reversed(lines)
ScanOrder(lines) == [i \in 1..Len(lines) |-> lines[Len(lines) - i + 1]]

\* the body of the loop over the lines, from the first line of ls on
RECURSIVE ScanLines(_)
ScanLines(ls) ==
    IF ls = <<>> THEN FloatOf(0, 0)
    ELSE LET line == Head(ls)
             decimal_matches == FindDecimals(line, 1)
             whole_matches == FindIntegers(line, 1)
         IN  IF decimal_matches # <<>>
                 THEN ToFloat(decimal_matches[Len(decimal_matches)])
             ELSE IF HasMarker(line) /\ whole_matches # <<>>
                 THEN ToFloat(whole_matches[Len(whole_matches)])
             ELSE ScanLines(Tail(ls))

\* extract_price(text)
ExtractPrice(text) ==
    IF text = <<>> THEN FloatOf(0, 0)
    ELSE IF \E i \in 1..Len(StrippedLines(text)) :
                Lower(StrippedLines(text)[i]) = <<"f", "r", "e", "e">>
        THEN FloatOf(0, 0)
    ELSE ScanLines(ScanOrder(StrippedLines(text)))

\* lines of price blocks: "", " ", "Free", "free now", "$10", " 9,99 lei ",
\* "-50%", "1.5 2,25(euro)", "RON 7 8", "1.2.3", "$", "12 (g)(r)(n)"
PriceLines == {
    <<>>,
    <<" ">>,
    <<"F", "r", "e", "e">>,
    <<"f", "r", "e", "e", " ", "n", "o", "w">>,
    <<"$", "1", "0">>,
    <<" ", "9", ",", "9", "9", " ", "l", "e", "i", " ">>,
    <<"-", "5", "0", "%">>,
    <<"1", ".", "5", " ", "2", ",", "2", "5", "(euro)">>,
    <<"R", "O", "N", " ", "7", " ", "8">>,
    <<"1", ".", "2", ".", "3">>,
    <<"$">>,
    <<"1", "2", " ", "(cyr-g)", "(cyr-r)", "(cyr-n)">> }

\* "\n".join(ls)
RECURSIVE JoinLines(_)
JoinLines(ls) ==
    IF Len(ls) = 1 THEN ls[1]
    ELSE ls[1] \o <<"\n">> \o JoinLines(Tail(ls))

\* the texts extract_price is applied to
PriceTexts == {JoinLines(ls) : ls \in UNION {[1..n -> PriceLines] : n \in 1..MaxLines}}

\* original_price = extract_price(raw_price)
ApplyExtract ==
    /\ res = <<>>
    /\ res' = <<ExtractPrice(arg)>>
    /\ UNCHANGED <<dbvars, call, scrapevars, botvars, arg>>

----------------------------------------------------------------------------
(* The ingestion boundary: POST /api/v1/games/parse -> process_scraped_game *)

Req(sid, sname, title, rid, price, cur, disc) ==
    [store_id |-> sid, store_name |-> sname, raw_title |-> title,
     remote_id |-> rid, price |-> price, currency |-> cur, discount_percent |-> disc]

\* Prices are in cents. The titles of the first, second and fourth request
\* normalize to "ab", the others to "c d".
SteamAb == Req(1, "Steam", <<"A", "b">>, "10", 500, "USD", 0)
SteamAbPc == Req(1, "Steam", <<"a", "b", " ", "P", "C">>, "10", 700, "USD", 50)
SteamCd == Req(1, "Steam", <<"c", "-", "d">>, "10", 500, "USD", 0)
EpicAb == Req(2, "Epic Games", <<"A", "b", "(tm)">>, "10", 700, "EUR", 0)
OtherSteamCd == Req(2, "Steam", <<"c", "-", "d">>, "20", 500, "USD", 0)
\* "price": -1.0
SteamAbNegative == Req(1, "Steam", <<"A", "b">>, "10", -100, "USD", 0)

\* the requests a sequential caller sends
Requests == {SteamAb, SteamAbPc, SteamCd, EpicAb, OtherSteamCd, SteamAbNegative}
\* the requests that arrive concurrently
RaceRequests == {SteamAb, SteamAbPc, OtherSteamCd}

NoReq == Req(0, "", <<>>, "", 0, "", 0)

NewCall ==
    [pc |-> "new", req |-> NoReq, txn |-> 0, game |-> 0, listing |-> 0,
     err |-> "none", created |-> {}]

Finished(c) == call[c].pc \in {"done", "failed", "rejected"}
Running(c) == call[c].pc \notin {"new", "done", "failed", "rejected"}

\* A statement opens the session's transaction when none is open (autobegin);
\* now() is the start time of the transaction.
TxnOf(c) == IF call[c].txn = 0 THEN clock ELSE call[c].txn
ClockAfter(c) == IF call[c].txn = 0 THEN clock + 1 ELSE clock

\* the slug process_scraped_game computes from the request
ReqSlug(r) == SlugOf(Normalize(r.raw_title))

\* db.query(Store).filter(Store.id == store_id)
FindStore(sid) == {s \in stores : s.id = sid}
\* mutant: the filter compares the title column with the slug
FindGame_ByTitle(slug) == {g \in games : g.title = slug}
\* db.query(Game).filter(Game.slug == slug)
FindGame(slug) == {g \in games : g.slug = slug}
\* db.query(GameListing).filter(store_id == ..., remote_id == ...)
FindListing(sid, rid) == {l \in listings : l.store_id = sid /\ l.remote_id = rid}

\* primary key and unique index of "stores"
StoreConflict(sid, sname) == \E s \in stores : s.id = sid \/ s.name = sname
\* unique index on games.slug
GameConflict(slug) == \E g \in games : g.slug = slug
\* unique index ix_store_remote_id
ListingConflict(sid, rid) == \E l \in listings : l.store_id = sid /\ l.remote_id = rid

\* Game(title=clean_title, slug=slug) with its generated id
GameRow(r) ==
    [id |-> Cardinality(games) + 1, title |-> Normalize(r.raw_title), slug |-> ReqSlug(r)]

\* mutant: the listing is linked to a Game object that was never added to the session
ListingRow_UnsavedGame(c) ==
    [id |-> Cardinality(listings) + 1, game_id |-> Cardinality(games) + 1,
     store_id |-> call[c].req.store_id, remote_id |-> call[c].req.remote_id,
     listing_title |-> call[c].req.raw_title]
\* GameListing(game_id=game.id, store_id=..., remote_id=..., listing_title=raw_title)
ListingRow(c) ==
    [id |-> Cardinality(listings) + 1, game_id |-> call[c].game,
     store_id |-> call[c].req.store_id, remote_id |-> call[c].req.remote_id,
     listing_title |-> call[c].req.raw_title]

\* mutant: scraped_at from a default evaluated once, when the module is loaded
PriceRow_FixedStamp(c) ==
    [id |-> Cardinality(prices) + 1, listing_id |-> call[c].listing,
     price |-> call[c].req.price, currency |-> call[c].req.currency,
     discount_percent |-> call[c].req.discount_percent, scraped_at |-> 0]
\* PriceHistory(listing_id=listing.id, price=..., currency=..., discount_percent=...)
\* with scraped_at = server_default now()
PriceRow(c) ==
    [id |-> Cardinality(prices) + 1, listing_id |-> call[c].listing,
     price |-> call[c].req.price, currency |-> call[c].req.currency,
     discount_percent |-> call[c].req.discount_percent, scraped_at |-> call[c].txn]

\* mutant: no new row when the listing already has one with this price
PricesAfter_Dedup(c) ==
    IF \E p \in prices : p.listing_id = call[c].listing /\ p.price = call[c].req.price
        THEN prices
        ELSE prices \cup {PriceRow(c)}
\* mutant: the listing's price is overwritten, not appended
PricesAfter_Upsert(c) ==
    {p \in prices : p.listing_id # call[c].listing} \cup {PriceRow(c)}
\* the rows of price_history after step 4 of call c
PricesAfter(c) == prices \cup {PriceRow(c)}

\* an IntegrityError leaves process_scraped_game and the request ends in an error
Raise(c, step) ==
    call' = [call EXCEPT ![c].pc = "failed", ![c].err = step, ![c].txn = 0]

\* GameScrapeRequest: the fields are typed (int, float, str) and none has a
\* range constraint
Validates(r) ==
    /\ r.store_id \in Int
    /\ r.price \in Int
    /\ r.discount_percent \in Int

\* the c-th request arrives: FastAPI validates the body against the schema,
\* answers 422 without calling the handler when it does not fit, and calls
\* process_scraped_game otherwise
Start(c, r) ==
    /\ call[c].pc = "new"
    /\ \A d \in DOMAIN call : d < c => call[d].pc # "new"
    /\ call' = [call EXCEPT ![c].pc = IF Validates(r) THEN "q_store" ELSE "rejected",
                            ![c].req = r]
    /\ UNCHANGED <<dbvars, scrapevars, botvars, fnvars>>

\* 1. Store: the query
QueryStore(c) ==
    /\ call[c].pc = "q_store"
    /\ call' = [call EXCEPT ![c].pc = IF FindStore(call[c].req.store_id) # {}
                                        THEN "q_game" ELSE "c_store",
                            ![c].txn = TxnOf(c)]
    /\ clock' = ClockAfter(c)
    /\ UNCHANGED <<stores, games, listings, prices, scrapevars, botvars, fnvars>>

\* 1. Store: db.add(store); db.commit()
CommitStore(c) ==
    /\ call[c].pc = "c_store"
    /\ IF StoreConflict(call[c].req.store_id, call[c].req.store_name)
          THEN /\ Raise(c, "store")
               /\ UNCHANGED stores
          ELSE /\ stores' = stores \cup {[id |-> call[c].req.store_id,
                                          name |-> call[c].req.store_name]}
               /\ call' = [call EXCEPT ![c].pc = "q_game", ![c].txn = 0,
                                       ![c].created = @ \cup {"store"}]
    /\ UNCHANGED <<games, listings, prices, clock, scrapevars, botvars, fnvars>>

\* 2. Game: the query by slug
QueryGame(c) ==
    /\ call[c].pc = "q_game"
    /\ LET found == FindGame(ReqSlug(call[c].req)) IN
        call' = [call EXCEPT ![c].pc = IF found # {} THEN "q_listing" ELSE "c_game",
                             ![c].game = IF found # {} THEN (CHOOSE g \in found : TRUE).id ELSE 0,
                             ![c].txn = TxnOf(c)]
    /\ clock' = ClockAfter(c)
    /\ UNCHANGED <<stores, games, listings, prices, scrapevars, botvars, fnvars>>

\* 2. Game: db.add(game); db.commit()
CommitGame(c) ==
    /\ call[c].pc = "c_game"
    /\ IF GameConflict(ReqSlug(call[c].req))
          THEN /\ Raise(c, "game")
               /\ UNCHANGED games
          ELSE /\ games' = games \cup {GameRow(call[c].req)}
               /\ call' = [call EXCEPT ![c].pc = "r_game", ![c].txn = 0,
                                       ![c].game = GameRow(call[c].req).id,
                                       ![c].created = @ \cup {"game"}]
    /\ UNCHANGED <<stores, listings, prices, clock, scrapevars, botvars, fnvars>>

\* 2. Game: db.refresh(game)
RefreshGame(c) ==
    /\ call[c].pc = "r_game"
    /\ call' = [call EXCEPT ![c].pc = "q_listing", ![c].txn = TxnOf(c)]
    /\ clock' = ClockAfter(c)
    /\ UNCHANGED <<stores, games, listings, prices, scrapevars, botvars, fnvars>>

\* 3. Listing: the query by (store_id, remote_id)
QueryListing(c) ==
    /\ call[c].pc = "q_listing"
    /\ LET found == FindListing(call[c].req.store_id, call[c].req.remote_id) IN
        call' = [call EXCEPT ![c].pc = IF found # {} THEN "c_price" ELSE "c_listing",
                             ![c].listing = IF found # {} THEN (CHOOSE l \in found : TRUE).id ELSE 0,
                             ![c].txn = TxnOf(c)]
    /\ clock' = ClockAfter(c)
    /\ UNCHANGED <<stores, games, listings, prices, scrapevars, botvars, fnvars>>

\* 3. Listing: db.add(listing); db.commit()
CommitListing(c) ==
    /\ call[c].pc = "c_listing"
    /\ IF ListingConflict(call[c].req.store_id, call[c].req.remote_id)
          THEN /\ Raise(c, "listing")
               /\ UNCHANGED listings
          ELSE /\ listings' = listings \cup {ListingRow(c)}
               /\ call' = [call EXCEPT ![c].pc = "r_listing", ![c].txn = 0,
                                       ![c].listing = ListingRow(c).id,
                                       ![c].created = @ \cup {"listing"}]
    /\ UNCHANGED <<stores, games, prices, clock, scrapevars, botvars, fnvars>>

\* 3. Listing: db.refresh(listing)
RefreshListing(c) ==
    /\ call[c].pc = "r_listing"
    /\ call' = [call EXCEPT ![c].pc = "c_price", ![c].txn = TxnOf(c)]
    /\ clock' = ClockAfter(c)
    /\ UNCHANGED <<stores, games, listings, prices, scrapevars, botvars, fnvars>>

\* 4. Price history: db.add(price_record); db.commit(); return game
CommitPrice(c) ==
    /\ call[c].pc = "c_price"
    /\ prices' = PricesAfter(c)
    /\ call' = [call EXCEPT ![c].pc = "done", ![c].txn = 0]
    /\ UNCHANGED <<stores, games, listings, clock, scrapevars, botvars, fnvars>>

----------------------------------------------------------------------------
(* The scraper: scrape_steam and scrape_epic gathered by main on one event loop. *)
(* A step runs from one await to the next; requests.post is synchronous, so    *)
(* the coroutine inside it holds the loop until the response is in.            *)

Tasks == {"steam", "epic"}

\* result rows the search page can show
MaxResults == 2

\* games[:5] in scrape_steam, games[:3] in scrape_epic
TOP_STEAM == 5
TOP_EPIC == 3
TopN(t) == IF t = "steam" THEN TOP_STEAM ELSE TOP_EPIC

\* What a result row turns out to be when its element is read:
\*   "ok"      its href yields a native identifier and it has text
\*   "noid"    no identifier can be taken from its href
\*   "blank"   it has an href and no text
\*   "broken"  reading the element raises
Kinds == {"ok", "noid", "blank", "broken"}

\* how the ingestion boundary answers a POST: 200, another status, or no connection
Answers == {"200", "rejected", "unreachable"}

NewTask == [pc |-> "launch", n |-> 0, i |-> 0, err |-> "none"]

Live(t) == task[t].pc \notin {"done", "raised", "cancelled"}

\* a step of coroutine t can run: the loop is not held and main has not ended
CanRun(t) == busy = "none" /\ mainpc = "gather" /\ Live(t)

\* an exception leaves the coroutine
TaskRaise(t, why) ==
    task' = [task EXCEPT ![t].pc = "raised", ![t].err = why]

\* the candidate after the i-th, or the end of the loop
AfterCandidate(t) ==
    IF task[t].i < task[t].n
        THEN [task EXCEPT ![t].i = @ + 1, ![t].pc = "cand"]
        ELSE [task EXCEPT ![t].pc = "close"]

\* what remote_id holds when the href yields no identifier: "unknown" where the
\* href is missing (or, in scrape_steam, has no "/app/"), the empty string where
\* scrape_epic splits an href that ends in "/"
UnparsedIds == {"unknown", ""}
\* scrape_steam: if remote_id != "unknown"; scrape_epic has no such test
SkipsUnknownId(t) == t = "steam"
\* scrape_epic wraps each candidate in try/except Exception: pass
CatchesCandidateError(t) == t = "epic"
\* scrape_epic: if not lines: continue
SkipsBlank(t) == t = "epic"
\* mutant: requests.post is called outside any try
CatchesPostError_Nowhere(t) == FALSE
\* both coroutines: try: requests.post(...) except Exception: pass
CatchesPostError(t) == t \in Tasks

\* async_playwright(), chromium.launch, new_context, new_page
Launch(t) ==
    /\ CanRun(t) /\ task[t].pc = "launch"
    /\ \E ok \in BOOLEAN :
        IF ok THEN task' = [task EXCEPT ![t].pc = "goto"]
              ELSE TaskRaise(t, "launch")
    /\ UNCHANGED <<dbvars, call, botvars, fnvars, mainpc, busy, posted>>

\* await page.goto(...)
Goto(t) ==
    /\ CanRun(t) /\ task[t].pc = "goto"
    /\ \E ok \in BOOLEAN :
        IF ok THEN task' = [task EXCEPT ![t].pc = "wait"]
              ELSE TaskRaise(t, "goto")
    /\ UNCHANGED <<dbvars, call, botvars, fnvars, mainpc, busy, posted>>

\* try: await page.wait_for_selector(..., timeout=...) except Exception: close, return
WaitForSelector(t) ==
    /\ CanRun(t) /\ task[t].pc = "wait"
    /\ \E ok \in BOOLEAN :
        IF ok THEN task' = [task EXCEPT ![t].pc = "select"]
              ELSE task' = [task EXCEPT ![t].pc = "close", ![t].err = "timeout"]
    /\ UNCHANGED <<dbvars, call, botvars, fnvars, mainpc, busy, posted>>

\* games = await page.query_selector_all(...); for game in games[:N]
QuerySelectorAll(t) ==
    /\ CanRun(t) /\ task[t].pc = "select"
    /\ \E found \in 1..MaxResults :
        task' = [task EXCEPT ![t].pc = "cand", ![t].i = 1,
                             ![t].n = IF found < TopN(t) THEN found ELSE TopN(t)]
    /\ UNCHANGED <<dbvars, call, botvars, fnvars, mainpc, busy, posted>>

\* one iteration of the loop up to requests.post(API_URL, json=payload)
Candidate(t) ==
    /\ CanRun(t) /\ task[t].pc = "cand"
    /\ \E kind \in Kinds :
        CASE kind = "broken" ->
                /\ IF CatchesCandidateError(t)
                      THEN task' = AfterCandidate(t)
                      ELSE TaskRaise(t, "candidate")
                /\ UNCHANGED <<busy, posted>>
          [] kind = "noid" /\ SkipsUnknownId(t) ->
                /\ task' = AfterCandidate(t)
                /\ UNCHANGED <<busy, posted>>
          [] kind = "blank" /\ SkipsBlank(t) ->
                /\ task' = AfterCandidate(t)
                /\ UNCHANGED <<busy, posted>>
          [] OTHER ->
                /\ task' = [task EXCEPT ![t].pc = "post"]
                /\ busy' = t
                /\ \E rid \in (IF kind = "noid" THEN UnparsedIds ELSE {"id"}) :
                    posted' = [posted EXCEPT ![t] = Append(@,
                        [i |-> task[t].i, remote_id |-> rid, answer |-> "pending"])]
    /\ UNCHANGED <<dbvars, call, botvars, fnvars, mainpc>>

\* requests.post returns or raises; the except around it passes
PostReturn(t) ==
    /\ busy = t /\ task[t].pc = "post"
    /\ \E a \in Answers :
        /\ posted' = [posted EXCEPT ![t][Len(posted[t])].answer = a]
        /\ IF a = "unreachable" /\ ~CatchesPostError(t)
              THEN TaskRaise(t, "post")
              ELSE task' = AfterCandidate(t)
    /\ busy' = "none"
    /\ UNCHANGED <<dbvars, call, botvars, fnvars, mainpc>>

\* await browser.close() and the end of the coroutine
Close(t) ==
    /\ CanRun(t) /\ task[t].pc = "close"
    /\ task' = [task EXCEPT ![t].pc = "done"]
    /\ UNCHANGED <<dbvars, call, botvars, fnvars, mainpc, busy, posted>>

\* a step of coroutine t
TaskStep(t) ==
    \/ Launch(t) \/ Goto(t) \/ WaitForSelector(t) \/ QuerySelectorAll(t)
    \/ Candidate(t) \/ PostReturn(t) \/ Close(t)

\* asyncio.gather returns when both coroutines have returned
MainFinish ==
    /\ mainpc = "gather" /\ busy = "none"
    /\ \A t \in Tasks : task[t].pc = "done"
    /\ mainpc' = "finished"
    /\ UNCHANGED <<dbvars, call, botvars, fnvars, task, busy, posted>>

\* asyncio.gather (return_exceptions=False) re-raises the first exception in
\* main; asyncio.run then cancels the coroutines still running and the process
\* ends with the exception
MainError ==
    /\ mainpc = "gather" /\ busy = "none"
    /\ \E t \in Tasks : task[t].pc = "raised"
    /\ mainpc' = "error"
    /\ task' = [t \in Tasks |->
                  IF Live(t) THEN [task[t] EXCEPT !.pc = "cancelled"] ELSE task[t]]
    /\ UNCHANGED <<dbvars, call, botvars, fnvars, busy, posted>>

----------------------------------------------------------------------------
(* The bot: game_selection_handler shows a game's price per listing, and     *)
(* search_handler runs the scraper process and waits for it.                 *)

\* nothing reported yet
NotShown == [game |-> 0, latest |-> {}]

\* every order of the rows of S
RECURSIVE Orderings(_)
Orderings(S) ==
    IF S = {} THEN {<<>>}
    ELSE UNION {{Append(o, x) : o \in Orderings(S \ {x})} : x \in S}

\* game.listings
GameListings(g) == {l \in listings : l.game_id = g.id}

\* listing.prices: the relationship is loaded by a SELECT on listing_id with no
\* ORDER BY, so the rows come in the order the storage returns them
LoadedPrices(l) == Orderings({p \in prices : p.listing_id = l.id})

\* latest_price = listing.prices[-1]
LatestPrice(loaded) == loaded[Len(loaded)]

\* game_selection_handler for the game g: one line per listing that has prices
GameSelection(g) ==
    /\ g \in games
    /\ \E load \in [GameListings(g) -> UNION {LoadedPrices(l) : l \in GameListings(g)}] :
        /\ \A l \in GameListings(g) : load[l] \in LoadedPrices(l)
        /\ shown' = [game |-> g.id,
                     latest |-> {[listing |-> l.id, price |-> LatestPrice(load[l])] :
                                    l \in {m \in GameListings(g) : load[m] # <<>>}}]
    /\ UNCHANGED <<dbvars, call, scrapevars, botpc, fnvars>>

\* mutant: the process is started and not waited for
ProcessExited_NotAwaited == TRUE
\* asyncio.run(main(query)) has returned or raised: the scraper process is gone
ProcessExited == mainpc \in {"finished", "error"}

\* search_handler after create_subprocess_exec: await process.communicate(),
\* then the catalog is queried again and the answer is sent
SearchResume ==
    /\ botpc = "communicate"
    /\ ProcessExited
    /\ botpc' = "replied"
    /\ UNCHANGED <<dbvars, call, scrapevars, shown, fnvars>>

----------------------------------------------------------------------------
(* Specifications *)

InitDb ==
    /\ stores = {} /\ games = {} /\ listings = {} /\ prices = {}
    /\ clock = 1

InitScrape ==
    /\ task = [t \in Tasks |-> NewTask]
    /\ mainpc = "gather"
    /\ busy = "none"
    /\ posted = [t \in Tasks |-> <<>>]

\* the bot has handled no update
InitBot ==
    /\ botpc = "idle"
    /\ shown = NotShown

\* no function is being applied
InitFn ==
    /\ arg = <<>>
    /\ res = <<>>

\* concurrent requests: the handlers interleave statement by statement
Init ==
    /\ InitDb /\ InitScrape /\ InitBot /\ InitFn
    /\ call = [c \in 1..MaxCalls |-> NewCall]

Next ==
    \/ \E c \in DOMAIN call, r \in RaceRequests : Start(c, r)
    \/ \E c \in DOMAIN call : QueryStore(c)
    \/ \E c \in DOMAIN call : CommitStore(c)
    \/ \E c \in DOMAIN call : QueryGame(c)
    \/ \E c \in DOMAIN call : CommitGame(c)
    \/ \E c \in DOMAIN call : RefreshGame(c)
    \/ \E c \in DOMAIN call : QueryListing(c)
    \/ \E c \in DOMAIN call : CommitListing(c)
    \/ \E c \in DOMAIN call : RefreshListing(c)
    \/ \E c \in DOMAIN call : CommitPrice(c)

Spec == Init /\ [][Next]_vars

\* a sequential caller: request c is sent when the responses to all earlier ones are in
SeqStart(c, r) ==
    /\ \A d \in DOMAIN call : d < c => Finished(d)
    /\ Start(c, r)

InitSeq ==
    /\ InitDb /\ InitScrape /\ InitBot /\ InitFn
    /\ call = [c \in 1..SeqCalls |-> NewCall]

NextSeq ==
    \/ \E c \in DOMAIN call, r \in Requests : SeqStart(c, r)
    \/ \E c \in DOMAIN call : QueryStore(c)
    \/ \E c \in DOMAIN call : CommitStore(c)
    \/ \E c \in DOMAIN call : QueryGame(c)
    \/ \E c \in DOMAIN call : CommitGame(c)
    \/ \E c \in DOMAIN call : RefreshGame(c)
    \/ \E c \in DOMAIN call : QueryListing(c)
    \/ \E c \in DOMAIN call : CommitListing(c)
    \/ \E c \in DOMAIN call : RefreshListing(c)
    \/ \E c \in DOMAIN call : CommitPrice(c)

SpecSeq == InitSeq /\ [][NextSeq]_vars

\* one run of the scraper process; the ingestion boundary is its environment
\* search_handler found no game, started the process and awaits communicate()
InitSearch ==
    /\ botpc = "communicate"
    /\ shown = NotShown

InitScraper ==
    /\ InitDb /\ InitScrape /\ InitSearch /\ InitFn
    /\ call = [c \in 1..MaxCalls |-> NewCall]

NextScrape ==
    \/ \E t \in Tasks : Launch(t)
    \/ \E t \in Tasks : Goto(t)
    \/ \E t \in Tasks : WaitForSelector(t)
    \/ \E t \in Tasks : QuerySelectorAll(t)
    \/ \E t \in Tasks : Candidate(t)
    \/ \E t \in Tasks : PostReturn(t)
    \/ \E t \in Tasks : Close(t)
    \/ MainFinish
    \/ MainError
    \/ SearchResume

SpecScrape == InitScraper /\ [][NextScrape]_vars

\* TitleNormalizer.normalize applied to a title, and again to what it returned
InitNormalize ==
    /\ InitDb /\ InitScrape /\ InitBot
    /\ call = [c \in 1..MaxCalls |-> NewCall]
    /\ arg \in Titles
    /\ res = <<>>

NextNormalize ==
    \/ NormalizeOnce
    \/ NormalizeAgain

SpecNormalize == InitNormalize /\ [][NextNormalize]_vars

\* convert_to_usd applied to an amount and a currency code
InitConvert ==
    /\ InitDb /\ InitScrape /\ InitBot
    /\ call = [c \in 1..MaxCalls |-> NewCall]
    /\ arg \in [price : Amounts, currency : Currencies]
    /\ res = <<>>

NextConvert ==
    \/ ApplyConvert

SpecConvert == InitConvert /\ [][NextConvert]_vars

\* extract_price applied to the text of a price block
InitExtract ==
    /\ InitDb /\ InitScrape /\ InitBot
    /\ call = [c \in 1..MaxCalls |-> NewCall]
    /\ arg \in PriceTexts
    /\ res = <<>>

NextExtract ==
    \/ ApplyExtract

SpecExtract == InitExtract /\ [][NextExtract]_vars

\* the requests that arrive while the bot shows the game: one listing, two prices
BotRequests == {SteamAb, SteamAbPc}

\* concurrent requests for one listing, and the bot's callback at any moment
NextBot ==
    \/ \E c \in DOMAIN call, r \in BotRequests : Start(c, r)
    \/ \E c \in DOMAIN call : QueryStore(c)
    \/ \E c \in DOMAIN call : CommitStore(c)
    \/ \E c \in DOMAIN call : QueryGame(c)
    \/ \E c \in DOMAIN call : CommitGame(c)
    \/ \E c \in DOMAIN call : RefreshGame(c)
    \/ \E c \in DOMAIN call : QueryListing(c)
    \/ \E c \in DOMAIN call : CommitListing(c)
    \/ \E c \in DOMAIN call : RefreshListing(c)
    \/ \E c \in DOMAIN call : CommitPrice(c)
    \/ \E g \in games : GameSelection(g)

SpecBot == Init /\ [][NextBot]_vars

----------------------------------------------------------------------------
(* Properties *)

Calls == DOMAIN call
SlugOfCall(c) == ReqSlug(call[c].req)
SamePair(c, d) ==
    /\ call[c].req.store_id = call[d].req.store_id
    /\ call[c].req.remote_id = call[d].req.remote_id
\* the price rows of the listing(s) of call c's (store_id, remote_id)
PairPrices(c) ==
    {p \in prices : \E l \in FindListing(call[c].req.store_id, call[c].req.remote_id) :
        p.listing_id = l.id}
\* the calls for call c's pair that returned
PairDone(c) == {d \in Calls : call[d].pc = "done" /\ SamePair(c, d)}
\* the calls for call c's pair that ended in an error
SamePairFailed(c) == {d \in Calls : call[d].pc = "failed" /\ SamePair(c, d)}
\* the rows call c inserted that are in the tables
RowsLeftBy(c) ==
    {s \in stores : "store" \in call[c].created /\ s.id = call[c].req.store_id}
    \cup {g \in games : "game" \in call[c].created /\ g.id = call[c].game}
    \cup {l \in listings : "listing" \in call[c].created /\ l.id = call[c].listing}

\* C1: two concurrent calls for one new slug leave exactly one Game row with
\* that slug, and neither ends with the duplicate-key error of the Game insert.
C1_GameRaceRecovered ==
    \A c, d \in Calls :
        (/\ c # d /\ Finished(c) /\ Finished(d)
         /\ SlugOfCall(c) = SlugOfCall(d)
         /\ call[c].err # "store" /\ call[d].err # "store")
        => /\ Cardinality(FindGame(SlugOfCall(c))) = 1
           /\ call[c].err # "game" /\ call[d].err # "game"

\* C2: two concurrent calls for one new (store_id, remote_id) both return, one
\* Listing row exists for the pair, and each call appended its PriceHistory row.
C2_ListingRaceRecovered ==
    \A c, d \in Calls :
        (/\ c # d /\ Finished(c) /\ Finished(d) /\ SamePair(c, d)
         /\ call[c].err \notin {"store", "game"} /\ call[d].err \notin {"store", "game"})
        => /\ call[c].pc = "done" /\ call[d].pc = "done"
           /\ Cardinality(FindListing(call[c].req.store_id, call[c].req.remote_id)) = 1
           /\ Cardinality(PairPrices(c)) >= 2

\* C3: in every reachable state every Listing row references a Game row and a
\* Store row that exist, and every PriceHistory row a Listing row that exists.
C3_ReferencesExist ==
    /\ \A l \in listings :
        /\ \E g \in games : g.id = l.game_id
        /\ \E s \in stores : s.id = l.store_id
    /\ \A p \in prices : \E l \in listings : l.id = p.listing_id

\* a call failed after it had inserted a row, and the other call returned
C3_Witness ==
    /\ \E c \in Calls : call[c].pc = "failed" /\ call[c].created # {}
    /\ \E c \in Calls : call[c].pc = "done"
    /\ listings # {} /\ prices # {}

\* C4: a call that ends in a failure leaves none of the rows it inserted.
C4_AllOrNothing ==
    \A c \in Calls : call[c].pc = "failed" => RowsLeftBy(c) = {}

C6_OneRowPerCall ==
    /\ \A l, m \in listings :
        l.store_id = m.store_id /\ l.remote_id = m.remote_id => l = m
    /\ \A c \in Calls :
        call[c].req # NoReq => Cardinality(PairPrices(c)) = Cardinality(PairDone(c))

\* two calls for one pair returned with the same price
C6_Witness ==
    \E c, d \in Calls :
        /\ c # d /\ call[c].pc = "done" /\ call[d].pc = "done" /\ SamePair(c, d)
        /\ call[c].req.price = call[d].req.price
        /\ Cardinality(PairPrices(c)) >= 2

C8_RowsOnlyAdded ==
    [][/\ stores \subseteq stores'
       /\ games \subseteq games'
       /\ listings \subseteq listings'
       /\ prices \subseteq prices']_vars

\* a call appended a price row to a listing that already had one
C8_Witness ==
    /\ \A c \in Calls : call[c].pc = "done"
    /\ \E p, q \in prices : p # q /\ p.listing_id = q.listing_id

\* C9: when one store task fails or times out, the other is not cancelled and
\* main does not end with an error.
C9_FailureIsolated ==
    (\E t \in Tasks : task[t].err # "none") =>
        /\ mainpc # "error"
        /\ \A t \in Tasks : task[t].pc # "cancelled"

\* C10: a store task that cannot launch its browser or load the page, or that
\* sees no result row in time, ends normally without a record and never raises.
C10_UnreachableIsEmpty ==
    \A t \in Tasks :
        task[t].err \in {"launch", "goto", "timeout"} =>
            /\ task[t].pc # "raised"
            /\ posted[t] = <<>>

\* C11: the price the bot reports for a listing is the listing's PriceHistory
\* row with the largest scraped_at, in whatever order the rows were loaded.
C11_LatestByTimestamp ==
    [][shown' # shown =>
        \A e \in shown'.latest :
            \A p \in prices :
                p.listing_id = e.listing => p.scraped_at <= e.price.scraped_at]_vars

\* C12: when search_handler gets past its wait for the scraper process, every
\* store task has ended and no ingestion request of theirs is still in flight.
C12_CompletionAfterAll ==
    botpc = "replied" =>
        /\ \A t \in Tasks : task[t].pc \in {"done", "raised", "cancelled"}
        /\ busy = "none"
        /\ \A t \in Tasks : \A k \in 1..Len(posted[t]) : posted[t][k].answer # "pending"

\* the bot went on after both tasks had sent a record and got its response
C12_Witness ==
    /\ botpc = "replied"
    /\ \A t \in Tasks : task[t].pc = "done" /\ posted[t] # <<>>

\* C13: normalize is idempotent: applied to its own output it returns that
\* output, also where the first pass turned punctuation inside a multi-word
\* filler into spaces.
C13_NormalizeIdempotent ==
    Len(res) = 2 => res[2] = res[1]

\* C14: every PriceHistory row has currency "USD", whatever currency the
\* request carried.
C14_CurrencyUsd ==
    \A p \in prices : p.currency = "USD"

\* C15: a request with a negative price is rejected by validation and leaves
\* no row; every PriceHistory row has price >= 0.
C15_NegativeRejected ==
    /\ \A c \in Calls :
        call[c].req.price < 0 =>
            /\ call[c].pc = "rejected"
            /\ call[c].created = {}
    /\ \A p \in prices : p.price >= 0

\* s[i..j] is a word of s: a maximal run of letters and digits
IsWordOf(s, i, j) ==
    /\ i <= j
    /\ \A k \in i..j : s[k] \in Letters \cup Digits
    /\ (i = 1 \/ s[i - 1] \notin Letters \cup Digits)
    /\ (j = Len(s) \/ s[j + 1] \notin Letters \cup Digits)
\* w is a substring of s
Contains(s, w) ==
    \E i \in 1..Len(s) :
        /\ i + Len(w) - 1 <= Len(s)
        /\ \A k \in 1..Len(w) : s[i + k - 1] = w[k]
\* the word W holds a filler token and is longer than it
HoldsFiller(W) ==
    \E k \in 1..Len(STOP_WORDS) :
        Len(STOP_WORDS[k]) < Len(W) /\ Contains(W, STOP_WORDS[k])

\* C16: a filler token inside a longer word of letters and digits is not
\* removed: every word of the lowercased title that holds a filler token as a
\* proper substring is still in the output, unchanged.
C16_FillerOnlyAsWord ==
    Len(res) >= 1 =>
        \A i, j \in 1..Len(arg) :
            LET low == Lower(arg) IN
                IsWordOf(low, i, j) /\ HoldsFiller(SubSeq(low, i, j))
                    => Contains(res[1], SubSeq(low, i, j))

\* a title with a word that holds a filler, out of which something else was removed
C16_Witness ==
    /\ Len(res) >= 1
    /\ Len(res[1]) < Len(arg)
    /\ \E i, j \in 1..Len(arg) :
        /\ IsWordOf(Lower(arg), i, j)
        /\ HoldsFiller(SubSeq(Lower(arg), i, j))
        /\ Contains(res[1], SubSeq(Lower(arg), i, j))

\* C17: convert_to_usd returns the amount times the table rate, rounded to a
\* whole number of cents; a code that is not in the table has rate 1.0; for
\* "USD" an amount of at most 2 decimals comes back unchanged.
C17_ConvertToUsd ==
    Len(res) = 1 /\ arg \in [price : Amounts, currency : Currencies] =>
        LET code == Upper(arg.currency)
            rate == IF code \in DOMAIN CONVERSION_RATES THEN CONVERSION_RATES[code] ELSE 1000
            exact == arg.price * rate
            diff == res[1] * 10000 - exact
        IN  /\ diff <= 5000 /\ -diff <= 5000
            /\ (code = <<"U", "S", "D">> /\ arg.price % 10 = 0 => res[1] * 10 = arg.price)

\* an amount in a currency the table does not have, returned as it is
C17_Witness ==
    /\ Len(res) = 1 /\ arg \in [price : Amounts, currency : Currencies]
    /\ Upper(arg.currency) \notin DOMAIN CONVERSION_RATES
    /\ arg.price > 0
    /\ res[1] * 10 = arg.price

\* the line holds a decimal-formatted number, or a currency marker and an integer
HoldsPrice(line) ==
    \/ FindDecimals(line, 1) # <<>>
    \/ HasMarker(line) /\ FindIntegers(line, 1) # <<>>
\* the number of such a line: its last decimal-formatted number, else its last integer
NumberIn(line) ==
    LET found == IF FindDecimals(line, 1) # <<>>
                    THEN FindDecimals(line, 1) ELSE FindIntegers(line, 1)
    IN  ToFloat(found[Len(found)])
\* a line of the text reads "free"
SaysFree(ls) == \E i \in 1..Len(ls) : Lower(ls[i]) = <<"f", "r", "e", "e">>

\* C18: extract_price returns 0 for an empty text and for a text with a line
\* that reads "free"; otherwise the number of the last line that holds a
\* decimal-formatted number or a currency marker with an integer, and 0 when
\* no line holds one.
C18_ExtractPrice ==
    Len(res) = 1 /\ arg \in PriceTexts =>
        LET ls == StrippedLines(arg)
            priced == {i \in 1..Len(ls) : HoldsPrice(ls[i])}
        IN  IF arg = <<>> \/ SaysFree(ls) \/ priced = {}
                THEN res[1] = [m |-> 0, e |-> 0]
                ELSE \E i \in priced :
                        /\ \A j \in priced : j <= i
                        /\ res[1] = NumberIn(ls[i])

\* two lines hold different numbers and the later one's was returned
C18_Witness ==
    /\ Len(res) = 1 /\ arg \in PriceTexts
    /\ ~SaysFree(StrippedLines(arg))
    /\ \E i, j \in 1..Len(StrippedLines(arg)) :
        /\ i < j
        /\ HoldsPrice(StrippedLines(arg)[i]) /\ HoldsPrice(StrippedLines(arg)[j])
        /\ NumberIn(StrippedLines(arg)[i]) # NumberIn(StrippedLines(arg)[j])
        /\ res[1] = NumberIn(StrippedLines(arg)[j])

\* C19: while one store task waits for the response to its ingestion request,
\* the other store task, if it has not ended, can take a step.
C19_PostDoesNotBlock ==
    \A t, u \in Tasks :
        (t # u /\ task[t].pc = "post" /\ Live(u)) => ENABLED TaskStep(u)

\* C20: no ingestion request is sent for a candidate whose identifier cannot
\* be parsed, in either store task.
C20_UnparsedSkipped ==
    \A t \in Tasks : \A k \in 1..Len(posted[t]) :
        posted[t][k].remote_id \notin UnparsedIds

\* C21: the Game a call returns owns the Listing the call appended its
\* PriceHistory row to, also when the pair was first ingested under a title
\* with another slug.
C21_ReturnedGameOwnsListing ==
    \A c \in Calls :
        call[c].pc = "done" =>
            \A l \in listings : l.id = call[c].listing => l.game_id = call[c].game

\* C22: two concurrent calls for one store id that had no Store row leave one
\* Store row with that id, and neither ends with the conflict of the Store
\* insert.
C22_StoreRaceRecovered ==
    \A c, d \in Calls :
        (/\ c # d /\ Finished(c) /\ Finished(d)
         /\ call[c].req.store_id = call[d].req.store_id)
        => /\ Cardinality({s \in stores : s.id = call[c].req.store_id}) = 1
           /\ call[c].err # "store" /\ call[d].err # "store"

\* C23: a call for a store id that has no Store row creates the Store and goes
\* on to the Game step, also when a Store row with another id has the same name.
C23_UnknownStoreCreated ==
    \A c \in Calls :
        call[c].pc \notin {"new", "q_store", "c_store", "rejected"} =>
            /\ call[c].err # "store"
            /\ \E s \in stores : s.id = call[c].req.store_id

\* C24: whatever the answer to a task's ingestion request, a connection error
\* and a non-success status included, the task does not fail on it: it goes
\* on to its next candidate, or past the loop after the last one, and a task
\* never ends raised because of a request.
C24_RequestFailureTolerated ==
    [][\A t \in Tasks :
        task[t].pc = "post" /\ task'[t] # task[t] =>
            /\ task'[t].err = task[t].err
            /\ IF task[t].i < task[t].n
                  THEN task'[t].pc = "cand" /\ task'[t].i = task[t].i + 1
                  ELSE task'[t].pc = "close"]_vars

\* a task's first request failed or was rejected, it sent a second one and ended normally
C24_Witness ==
    \E t \in Tasks :
        /\ task[t].pc = "done"
        /\ Len(posted[t]) >= 2
        /\ posted[t][1].answer \in {"rejected", "unreachable"}

====
